---- MODULE Spec2Model ----
(***************************************************************************)
(* Model of the FoR classification chat dashboard:                         *)
(*   - utils/webhook_client.py : WebhookClient (send_message,              *)
(*     normalize_response_format, validate_response,                       *)
(*     extract_error_message, extract_researcher_name_from_response)       *)
(*   - pages/main_app.py       : send_to_webhook, the chat loop, the guard *)
(*   - utils/flexible_auth.py  : FlexibleAuthManager (verify_password,     *)
(*     authenticate_user, upgrade_password_to_hash), the session helpers   *)
(*   - utils/admin_auth.py     : AdminAuthManager                          *)
(*   - login.py, pages/admin.py: the login form and the admin panel        *)
(*   - utils/config.py         : ConfigManager                             *)
(*   - create_admin.py         : the bootstrap of the admin user           *)
(*                                                                         *)
(* Seven specifications share the variables:                               *)
(*   Spec        the chat page: submissions, auto queries, clear history   *)
(*   SpecChatRun the chat page with a submission in two steps: the flag    *)
(*               set, then the answer of send_to_webhook handled           *)
(*   SpecWebhook the WebhookClient functions applied to a parsed body      *)
(*   SpecVerify  verify_password applied to a stored and a supplied string *)
(*   SpecAuth    a browser session over the credential store: login,       *)
(*               logout, page guards, the operations of the admin panel    *)
(*   SpecRace    a login in flight with a concurrent password reset        *)
(*   SpecConfig  the ConfigManager over one deployment                     *)
(***************************************************************************)
EXTENDS Integers, Sequences, FiniteSets, TLC

VARIABLES
    messages,       \* st.session_state.messages
    is_processing,  \* st.session_state.is_processing
    auto_query,     \* st.session_state['auto_query']
    errors,         \* the st.error texts shown by the last run of the page
    last_http,      \* the HTTP exchange of the last submission
    last_sent,      \* what send_message did with it (returned or raised)
    last_result,    \* what send_to_webhook returned for it
    arg,            \* SpecWebhook: the parsed response body
    call,           \* SpecWebhook: the function applied to arg
    out,            \* SpecWebhook: its outcome (returned or raised)
    stored,         \* SpecVerify: the stored password string
    supplied,       \* SpecVerify: the password typed by the user
    verdict,        \* SpecVerify: the outcome of verify_password
    users,          \* the users table of the credential store, by email
    session,        \* st.session_state: the keys written by the login page
    page,           \* the page whose script ran last
    reached,        \* "body" if that run passed the page's guard, "webhook"
                    \* while it waits in send_to_webhook, else "stopped"
    login,          \* the authenticate_user call in flight
    auth_errors,    \* the st.error texts of the last login or admin operation
    auth_result,    \* what the last authenticate_user returned
    os_environ,     \* os.environ
    env_file,       \* the entries of the .env file
    secrets,        \* the Streamlit secrets file
    cfg_arg,        \* SpecConfig: the arguments of ConfigManager.get
    cfg_call,       \* SpecConfig: the method called
    cfg_out         \* SpecConfig: its outcome (returned or raised)

vars == <<messages, is_processing, auto_query, errors, last_http, last_sent,
          last_result, arg, call, out, stored, supplied, verdict,
          users, session, page, reached, login, auth_errors, auth_result,
          os_environ, env_file, secrets, cfg_arg, cfg_call, cfg_out>>

chatVars == <<messages, is_processing, auto_query, errors, last_http,
              last_sent, last_result>>
webhookVars == <<arg, call, out>>
verifyVars == <<stored, supplied, verdict>>
authVars == <<users, session, page, reached, login, auth_errors, auth_result>>
configVars == <<os_environ, env_file, secrets, cfg_arg, cfg_call, cfg_out>>

(***************************************************************************)
(* Bounds of the model.                                                    *)
(***************************************************************************)
\* longest primary/secondary classification list the webhook returns
MaxEntries == 2
\* chat submissions per session
MaxSubmits == 2
\* writes of a user's last_login
MaxLogins == 1
\* chat submissions between a login and the logout
MaxSessionSubmits == 1
\* distinct salts the Argon2 hasher may draw
NumSalts == 2

(***************************************************************************)
(* Parsed JSON values (what response.json() returns).  Every value is a    *)
(* record of one shape: t is the Python type, s the text of a str (or the  *)
(* repr of a number or bool), items the elements of a list, keys the       *)
(* entries of a dict.                                                      *)
(***************************************************************************)
JNull == [t |-> "null", s |-> "", items |-> <<>>, keys |-> <<>>]
JStr(v) == [t |-> "str", s |-> v, items |-> <<>>, keys |-> <<>>]
JNum(v) == [t |-> "num", s |-> v, items |-> <<>>, keys |-> <<>>]
JBool(b) == [t |-> "bool", s |-> IF b THEN "True" ELSE "False", items |-> <<>>, keys |-> <<>>]
JList(l) == [t |-> "list", s |-> "", items |-> l, keys |-> <<>>]
JDict(f) == [t |-> "dict", s |-> "", items |-> <<>>, keys |-> f]

EmptyDict == JDict(<<>>)
EmptyList == JList(<<>>)

IsDict(v) == v.t = "dict"
IsList(v) == v.t = "list"
IsStr(v) == v.t = "str"

\* key in d
Has(d, k) == k \in DOMAIN d.keys
\* d.get(k, default)
Get(d, k, default) == IF Has(d, k) THEN d.keys[k] ELSE default
\* d.get(k)
GetOrNone(d, k) == Get(d, k, JNull)

\* bool(v)
Truthy(v) ==
    CASE v.t = "null" -> FALSE
      [] v.t = "str"  -> v.s # ""
      [] v.t = "num"  -> v.s \notin {"0", "0.0"}
      [] v.t = "bool" -> v.s = "True"
      [] v.t = "list" -> Len(v.items) > 0
      [] v.t = "dict" -> DOMAIN v.keys # {}

\* str(v); the bodies checked hold no list or dict where str() is applied,
\* so their repr is left opaque.
PyStr(v) ==
    CASE v.t = "null" -> "None"
      [] v.t \in {"str", "num", "bool"} -> v.s
      [] OTHER -> "<repr>"

(***************************************************************************)
(* The outcome of a call: a returned value or a raised exception.          *)
(***************************************************************************)
Ret(v) == [kind |-> "return", exc |-> "", msg |-> "", val |-> v]
Raise(e, m) == [kind |-> "raise", exc |-> e, msg |-> m, val |-> JNull]
NoCall == [kind |-> "none", exc |-> "", msg |-> "", val |-> JNull]

Returned(r) == r.kind = "return"
Raised(r) == r.kind = "raise"

(***************************************************************************)
(* Text.  TLC cannot look inside a string, so the biographies the regular  *)
(* expression reads are given as their characters; the str is their        *)
(* concatenation.                                                          *)
(***************************************************************************)
Upper == {"A","B","C","D","E","F","G","H","I","J","K","L","M","N","O","P","Q","R","S","T","U","V","W","X","Y","Z"}
Lower == {"a","b","c","d","e","f","g","h","i","j","k","l","m","n","o","p","q","r","s","t","u","v","w","x","y","z"}
Space == {" ", "\t", "\n"}

ProfessorWord == <<"P","r","o","f","e","s","s","o","r">>

\* "Professor Jane Doe works"
BioJane == ProfessorWord \o <<" ","J","a","n","e"," ","D","o","e"," ","w","o","r","k","s">>
\* "Dr Ann Lee"
BioNoTitle == <<"D","r"," ","A","n","n"," ","L","e","e">>
\* "Professor of Law"
BioLowerCase == ProfessorWord \o <<" ","o","f"," ","L","a","w">>

\* "Professor of Law Professor Ann Lee and Professor Jane Doe"
BioTwoNames ==
    BioLowerCase \o <<" ">> \o ProfessorWord \o <<" ","A","n","n"," ","L","e","e"," ","a","n","d"," ">>
        \o ProfessorWord \o <<" ","J","a","n","e"," ","D","o","e">>

BioCharSeqs == {BioJane, BioNoTitle, BioLowerCase, BioTwoNames}

RECURSIVE Join(_)
Join(cs) == IF cs = <<>> THEN "" ELSE cs[1] \o Join(Tail(cs))

\* the characters of a str of the model
Chars(s) ==
    IF \E cs \in BioCharSeqs : Join(cs) = s
    THEN CHOOSE cs \in BioCharSeqs : Join(cs) = s
    ELSE <<>>

\* the end (exclusive) of the run of characters of S that starts at i
RECURSIVE RunEnd(_, _, _)
RunEnd(cs, i, S) ==
    IF i <= Len(cs) /\ cs[i] \in S THEN RunEnd(cs, i + 1, S) ELSE i

LiteralAt(cs, i, w) ==
    /\ i + Len(w) - 1 <= Len(cs)
    /\ \A k \in 1..Len(w) : cs[i + k - 1] = w[k]

\* r'Professor\s+([A-Z][a-z]+\s+[A-Z][a-z]+)' matched at position i: every
\* repetition is greedy and is followed by a character outside its class,
\* so there is one way to match.
NameMatchAt(cs, i) ==
    LET a == i + Len(ProfessorWord)
        b == RunEnd(cs, a, Space)
        c == RunEnd(cs, b + 1, Lower)
        d == RunEnd(cs, c, Space)
        e == RunEnd(cs, d + 1, Lower)
    IN  [ok |-> /\ LiteralAt(cs, i, ProfessorWord)
                /\ b > a
                /\ b <= Len(cs) /\ cs[b] \in Upper
                /\ c > b + 1
                /\ d > c
                /\ d <= Len(cs) /\ cs[d] \in Upper
                /\ e > d + 1,
         group |-> IF b <= e - 1 /\ e - 1 <= Len(cs) THEN SubSeq(cs, b, e - 1) ELSE <<>>]

\* re.search(pattern, text): the leftmost position where the pattern matches
NameSearch(cs) ==
    LET hits == {i \in 1..Len(cs) : NameMatchAt(cs, i).ok}
    IN  IF hits = {} THEN [found |-> FALSE, group |-> <<>>]
        ELSE [found |-> TRUE,
              group |-> NameMatchAt(cs, CHOOSE i \in hits : \A j \in hits : i <= j).group]

(***************************************************************************)
(* WebhookClient                                                           *)
(***************************************************************************)
\* re.search raises TypeError on anything that is not a str
extract_researcher_name_from_response(response) ==
    LET biography == Get(response, "enriched_biography", JStr(""))
    IN  IF ~IsStr(biography)
        THEN Raise("TypeError", "expected string or bytes-like object")
        ELSE LET name_match == NameSearch(Chars(biography.s))
             IN  IF name_match.found
                 THEN Ret(JStr(Join(name_match.group)))
                 ELSE Ret(JStr("Researcher"))

\* mutant: an absent score becomes 0 and the confidence is read from the
\* key the output uses
NormalizedClassification_CoercedScores(classification) ==
    JDict( "field_number" :> Get(classification, "field_number", JStr(""))
        @@ "field_name" :> Get(classification, "field_name", JStr(""))
        @@ "confidence" :> Get(classification, "confidence", JStr("medium"))
        @@ "reasoning" :> Get(classification, "llm_reasoning", JStr(""))
        @@ "evidence_keywords" :> Get(classification, "evidence_keywords", EmptyList)
        @@ "rank" :> Get(classification, "rank", JNum("0"))
        @@ "group_name" :> Get(classification, "group_name", JStr(""))
        @@ "group_number" :> Get(classification, "group_number", JStr(""))
        @@ "division_name" :> Get(classification, "division_name", JStr(""))
        @@ "division_number" :> Get(classification, "division_number", JStr(""))
        @@ "field_semantic_score" :> Get(classification, "field_semantic_score", JNum("0"))
        @@ "field_combined_score" :> Get(classification, "field_combined_score", JNum("0"))
        @@ "hierarchy_validated" :> Get(classification, "hierarchy_validated", JBool(FALSE))
        @@ "classification_source" :> Get(classification, "classification_source", JStr(""))
        @@ "classification_method" :> Get(classification, "classification_method", JStr("")) )

\* the record built for one entry of primary/secondary_classifications
NormalizedClassification(classification) ==
    JDict( "field_number" :> Get(classification, "field_number", JStr(""))
        @@ "field_name" :> Get(classification, "field_name", JStr(""))
        @@ "confidence" :> Get(classification, "llm_confidence", JStr("medium"))
        @@ "reasoning" :> Get(classification, "llm_reasoning", JStr(""))
        @@ "evidence_keywords" :> Get(classification, "evidence_keywords", EmptyList)
        @@ "rank" :> Get(classification, "rank", JNum("0"))
        @@ "group_name" :> Get(classification, "group_name", JStr(""))
        @@ "group_number" :> Get(classification, "group_number", JStr(""))
        @@ "division_name" :> Get(classification, "division_name", JStr(""))
        @@ "division_number" :> Get(classification, "division_number", JStr(""))
        @@ "field_semantic_score" :> GetOrNone(classification, "field_semantic_score")
        @@ "field_combined_score" :> GetOrNone(classification, "field_combined_score")
        @@ "hierarchy_validated" :> Get(classification, "hierarchy_validated", JBool(FALSE))
        @@ "classification_source" :> Get(classification, "classification_source", JStr(""))
        @@ "classification_method" :> Get(classification, "classification_method", JStr("")) )

\* the loop "for classification in <value>: ... .append(...)": None, numbers
\* and bools are not iterable; an element that is not a dict has no .get (the
\* elements of a str are its characters, those of a dict its keys).
ConvertClassifications(value) ==
    CASE value.t \in {"null", "num", "bool"} ->
            Raise("TypeError", "object is not iterable")
      [] value.t = "list" ->
            IF \A i \in 1..Len(value.items) : IsDict(value.items[i])
            THEN Ret(JList([i \in 1..Len(value.items) |->
                                NormalizedClassification(value.items[i])]))
            ELSE Raise("AttributeError", "object has no attribute 'get'")
      [] value.t = "str" ->
            IF value.s = "" THEN Ret(EmptyList)
            ELSE Raise("AttributeError", "object has no attribute 'get'")
      [] value.t = "dict" ->
            IF DOMAIN value.keys = {} THEN Ret(EmptyList)
            ELSE Raise("AttributeError", "object has no attribute 'get'")

\* the flat branch of normalize_response_format, once the name and the two
\* lists are there
FlatNormalized(response, name, primary, secondary) ==
    JDict( "llm_classification" :> JDict(
               "primary_classifications" :> primary
            @@ "secondary_classifications" :> secondary
            @@ "evidence_based_biography" :> Get(response, "enriched_biography", JStr(""))
            @@ "enriched_biography" :> Get(response, "enriched_biography", JStr(""))
            @@ "classification_rationale" :> Get(response, "llm_rationale", JStr(""))
            @@ "confidence_level" :> Get(response, "llm_confidence_level", JStr("medium"))
            @@ "query_response" :> JStr("Classification completed for researcher with "
                    \o PyStr(Get(response, "classification_confidence", JStr("medium")))
                    \o " confidence.") )
        @@ "researcher_name" :> name
        @@ "classification_timestamp" :> Get(response, "classification_timestamp", JStr(""))
        @@ "classification_confidence" :> Get(response, "classification_confidence", JStr("medium"))
        @@ "institutional_context" :> JDict(
               "organization" :> JStr("Deakin University")
            @@ "position" :> JStr("Professor")
            @@ "department" :> JStr("School of Life and Environmental Sciences")
            @@ "email" :> JStr("Not available") )
        @@ "institutional_data_complete" :> JBool(TRUE)
        @@ "data_sources_used" :> JList(<<JStr("n8n_workflow")>>)
        @@ "search_quality" :> JDict(
               "fuzzy_match_used" :> JBool(FALSE)
            @@ "confidence_score" :> JNum("1.0")
            @@ "match_type" :> JStr("exact_match") )
        @@ "classification_method" :> Get(response, "classification_method", JStr(""))
        @@ "filtering_efficiency" :> Get(response, "filtering_efficiency", JStr(""))
        @@ "status" :> Get(response, "status", JStr(""))
        @@ "primary_research_areas" :> Get(response, "primary_research_areas", EmptyList)
        @@ "secondary_research_areas" :> Get(response, "secondary_research_areas", EmptyList) )

\* mutant: an array is not unwrapped
UnwrapArray_NoUnwrap(response) == response

\* the first element of a non-empty list, anything else as it is
UnwrapArray(response) ==
    IF IsList(response) /\ Len(response.items) > 0
    THEN response.items[1]
    ELSE response

\* the flat branch in the order it runs: the name (inside the dict literal),
\* the primary loop, the secondary loop; the first exception ends it
NormalizeFlat(response, name, primary, secondary) ==
    CASE Raised(name) -> name
      [] Returned(name) /\ Raised(primary) -> primary
      [] Returned(name) /\ Returned(primary) /\ Raised(secondary) -> secondary
      [] OTHER -> Ret(FlatNormalized(response, name.val, primary.val, secondary.val))

\* mutant: the nested format is not recognised and is converted again
NormalizeUnwrapped_NoNestedCheck(response) ==
    IF ~IsDict(response) THEN Ret(response)
    ELSE NormalizeFlat(response,
            extract_researcher_name_from_response(response),
            ConvertClassifications(Get(response, "primary_classifications", EmptyList)),
            ConvertClassifications(Get(response, "secondary_classifications", EmptyList)))

NormalizeUnwrapped(response) ==
    IF ~IsDict(response) THEN Ret(response)
    ELSE IF Has(response, "llm_classification") THEN Ret(response)
    ELSE NormalizeFlat(response,
            extract_researcher_name_from_response(response),
            ConvertClassifications(Get(response, "primary_classifications", EmptyList)),
            ConvertClassifications(Get(response, "secondary_classifications", EmptyList)))

normalize_response_format(response) == NormalizeUnwrapped(UnwrapArray(response))

ValidateUnwrapped(response) ==
    IF ~IsDict(response) THEN Ret(JBool(FALSE))
    ELSE LET has_direct_classifications ==
                 Truthy(GetOrNone(response, "primary_classifications"))
             llm_classification == Get(response, "llm_classification", EmptyDict)
             has_researcher_data == Truthy(GetOrNone(response, "researcher_name"))
         IN  IF ~IsDict(llm_classification)
             THEN Raise("AttributeError", "object has no attribute 'get'")
             ELSE Ret(JBool(
                    \/ has_direct_classifications
                    \/ Truthy(GetOrNone(llm_classification, "primary_classifications"))
                    \/ has_researcher_data))

validate_response(response) == ValidateUnwrapped(UnwrapArray(response))

error_fields == <<"error", "error_message", "validation_error", "termination_reason">>

NotFoundMessage == "Researcher not found in the classification system"

\* "field in response" for each Python type: a key of a dict, an element of a
\* list, a substring of a str (of the strs checked, only the field name
\* itself contains it); None, numbers and bools raise TypeError.
Contains(response, field) ==
    CASE response.t = "dict" -> Has(response, field)
      [] response.t = "list" -> \E i \in 1..Len(response.items) : response.items[i] = JStr(field)
      [] response.t = "str"  -> response.s = field
      [] OTHER -> FALSE

extract_error_message(response) ==
    IF response.t \in {"null", "num", "bool"}
    THEN Raise("TypeError", "argument is not iterable")
    ELSE IF ~IsDict(response)
    THEN IF \E i \in 1..Len(error_fields) : Contains(response, error_fields[i])
         THEN Raise("TypeError", "indices must be integers")
         ELSE Raise("AttributeError", "object has no attribute 'get'")
    ELSE LET hits == {i \in 1..Len(error_fields) :
                         /\ Contains(response, error_fields[i])
                         /\ Truthy(response.keys[error_fields[i]])}
             validation_guardrail == Get(response, "validation_guardrail", EmptyDict)
         IN  IF hits # {}
             THEN Ret(JStr(PyStr(response.keys[
                      error_fields[CHOOSE i \in hits : \A j \in hits : i <= j]])))
             ELSE IF ~IsDict(validation_guardrail)
             THEN Raise("AttributeError", "object has no attribute 'get'")
             ELSE IF GetOrNone(validation_guardrail, "validation_status") = JStr("not_found")
             THEN Ret(JStr(NotFoundMessage))
             ELSE Ret(JNull)

(***************************************************************************)
(* The parsed bodies the webhook is taken to answer with.                  *)
(***************************************************************************)
\* marks a key the body does not hold
Absent == [t |-> "absent", s |-> "", items |-> <<>>, keys |-> <<>>]
Opt(k, v) == IF v = Absent THEN <<>> ELSE k :> v

SeqsUpTo(S, n) == UNION {[1..k -> S] : k \in 0..n}

EntryFull ==
    JDict( "field_number" :> JStr("3105")
        @@ "field_name" :> JStr("Genetics")
        @@ "llm_confidence" :> JStr("high")
        @@ "llm_reasoning" :> JStr("r")
        @@ "evidence_keywords" :> JList(<<JStr("gene")>>)
        @@ "rank" :> JNum("1")
        @@ "field_semantic_score" :> JNum("0.91") )
EntryBare == JDict("field_name" :> JStr("Ecology"))
EntrySecondary ==
    JDict( "field_number" :> JStr("3109")
        @@ "field_name" :> JStr("Zoology")
        @@ "llm_confidence" :> JStr("low")
        @@ "field_combined_score" :> JNum("0.4") )
EntryNotObject == JStr("3105")

PrimaryOptions ==
    {Absent, JNull}
        \cup {JList(l) : l \in SeqsUpTo({EntryFull, EntryBare, EntryNotObject}, MaxEntries)}
SecondaryOptions ==
    {Absent, JNull} \cup {JList(l) : l \in SeqsUpTo({EntrySecondary}, MaxEntries)}
BiographyOptions ==
    {Absent, JNull} \cup {JStr(Join(cs)) : cs \in BioCharSeqs}
LlmOptions ==
    { Absent, JNull, JStr("n/a"), EmptyDict,
      JDict("primary_classifications" :> EmptyList),
      JDict("primary_classifications" :> JList(<<EntryFull>>)) }
GuardrailOptions ==
    { Absent, JNull, EmptyDict,
      JDict("validation_status" :> JStr("not_found")),
      JDict("validation_status" :> JStr("passed")) }

\* nested and flat bodies with and without classifications and name
ValidationBodies ==
    { JDict( Opt("llm_classification", l)
          @@ Opt("primary_classifications", p)
          @@ Opt("researcher_name", n) ) :
        l \in LlmOptions,
        p \in {Absent, EmptyList, JList(<<EntryFull>>)},
        n \in {Absent, JStr(""), JStr("R")} }

\* flat bodies
FlatBodies ==
    { JDict( Opt("primary_classifications", p)
          @@ Opt("secondary_classifications", q)
          @@ Opt("enriched_biography", b)
          @@ Opt("researcher_name", n) ) :
        p \in PrimaryOptions,
        q \in SecondaryOptions,
        b \in BiographyOptions,
        n \in {Absent, JStr("R")} }

\* bodies that report an error
ErrorBodies ==
    { JDict( Opt("error", e1)
          @@ Opt("error_message", e2)
          @@ Opt("validation_error", e3)
          @@ Opt("termination_reason", e4)
          @@ Opt("validation_guardrail", g)
          @@ Opt("llm_classification", l) ) :
        e1 \in {Absent, JStr(""), JStr("X"), JNum("5")},
        e2 \in {Absent, JStr("M")},
        e3 \in {Absent, JStr("V")},
        e4 \in {Absent, JStr("T")},
        g \in GuardrailOptions,
        l \in {Absent, EmptyDict} }

\* a flat body that carries every field the flat branch copies
MetadataBody ==
    JDict( "primary_classifications" :> JList(<<EntryFull>>)
        @@ "enriched_biography" :> JStr(Join(BioJane))
        @@ "llm_rationale" :> JStr("rationale")
        @@ "llm_confidence_level" :> JStr("high")
        @@ "classification_confidence" :> JStr("high")
        @@ "classification_timestamp" :> JStr("2025-01-01T00:00:00")
        @@ "classification_method" :> JStr("hybrid")
        @@ "filtering_efficiency" :> JStr("87%")
        @@ "status" :> JStr("completed")
        @@ "primary_research_areas" :> JList(<<JStr("Genetics")>>)
        @@ "secondary_research_areas" :> JList(<<JStr("Zoology")>>) )

ObjectBodies == ValidationBodies \cup FlatBodies \cup ErrorBodies \cup {MetadataBody}

ScalarBodies == {JNull, JStr("hello"), JStr("error"), JNum("5"), JBool(TRUE)}

\* every parsed body: an object, an array of one object, an array whose first
\* element is or is not an object, an empty array, a scalar
Bodies ==
    ObjectBodies
        \cup {JList(<<d>>) : d \in ObjectBodies}
        \cup {JList(<<d, EmptyDict>>) : d \in ValidationBodies}
        \cup {JList(<<v>>) : v \in ScalarBodies}
        \cup {EmptyList, JList(<<JStr("error"), EmptyDict>>)}
        \cup ScalarBodies

(***************************************************************************)
(* utils/flexible_auth.py: passwords.  A password string is either a text  *)
(* or the encoded Argon2 hash "$argon2id$...$salt$digest" of a text under  *)
(* a salt.  A text may itself begin with "$argon2" without being a hash.   *)
(***************************************************************************)
Text(p) == [kind |-> "text", text |-> p, salt |-> 0]
Argon2Hash(p, salt) == [kind |-> "argon2", text |-> p, salt |-> salt]

PlainTexts == {"pw1", "pw2"}
\* texts that carry the prefix and are no hash
PrefixedTexts == {"$argon2-legacy"}
Salts == 1..NumSalts

PasswordStrings ==
    {Text(p) : p \in PlainTexts \cup PrefixedTexts}
        \cup {Argon2Hash(p, n) : p \in PlainTexts \cup PrefixedTexts, n \in Salts}

\* s.startswith('$argon2')
StartsWithArgon2(s) == s.kind = "argon2" \/ s.text \in PrefixedTexts

\* ph.verify(hash, password): True, or the exception it raises
ph_verify(hash, password) ==
    IF hash.kind # "argon2" THEN "InvalidHash"
    ELSE IF password = Text(hash.text) THEN "True"
    ELSE "VerifyMismatchError"

verify_password(stored_password, input_password) ==
    IF StartsWithArgon2(stored_password)
    THEN IF ph_verify(stored_password, input_password) = "True"
         THEN Ret(JBool(TRUE))
         ELSE Ret(JBool(stored_password = input_password))
    ELSE Ret(JBool(stored_password = input_password))

(***************************************************************************)
(* The credential store (the users table, read and written over REST by    *)
(* utils/flexible_auth.py and utils/admin_auth.py) and the requests made   *)
(* to it.  A request ends in one of three ways: "ok" (the store applied it *)
(* and answered 2xx), "rejected" (the store answered another status and    *)
(* applied nothing) or "raises" (the request raised before the store       *)
(* applied anything).                                                      *)
(***************************************************************************)
AdminEmail == "admin@deakin.edu.au"
StaffEmail == "staff@deakin.edu.au"
NewEmail == "new@deakin.edu.au"
Emails == {AdminEmail, StaffEmail, NewEmail}

StoreOutcomes == {"ok", "rejected", "raises"}

\* a row of the users table; is_active is a JSON value (null when the
\* column is empty), last_login counts the writes of the column
UserRow(email, password, is_active, role, last_login) ==
    [email |-> email, password |-> password, is_active |-> is_active,
     role |-> role, name |-> "Name of " \o email, id |-> "id of " \o email,
     last_login |-> last_login]

\* None, in the shape of a row
NoUser == UserRow("", Text(""), JNull, "", 0)

\* variant: the password is stored as it was given
hash_password_Identity(password, salt) == password

\* ph.hash(password), the salt being what the hasher draws; the model
\* hashes texts only
hash_password(password, salt) == Argon2Hash(password.text, salt)

\* the salts the hasher may draw when the row holds the string stored: the
\* salt is random, the new hash is another string than the stored one
FreshSalts(stored_password) ==
    {n \in Salts : stored_password.kind = "argon2" => stored_password.salt # n}

\* the salt the hasher draws for the password of a new row: the hash of a
\* new row replaces no stored string, so one salt stands for all of them
CreatedSalts == {1}

\* PATCH /users?email=eq.<email> with a new password
PatchPassword(db, email, hashed_password) ==
    IF email \in DOMAIN db
    THEN [db EXCEPT ![email].password = hashed_password]
    ELSE db

\* variant: without the try/except, a failing request raises to the caller
upgrade_password_to_hash_Raising(db, email, plain_password, salt, patch) ==
    [users |-> IF patch = "ok"
               THEN PatchPassword(db, email, hash_password(plain_password, salt))
               ELSE db,
     result |-> patch = "ok",
     raised |-> patch = "raises"]

\* the table after the call, the boolean returned, and whether the call
\* raised (every exception is caught inside it)
upgrade_password_to_hash(db, email, plain_password, salt, patch) ==
    [users |-> IF patch = "ok"
               THEN PatchPassword(db, email, hash_password(plain_password, salt))
               ELSE db,
     result |-> patch = "ok",
     raised |-> FALSE]

\* _update_last_login: the failure of the request is logged and dropped
update_last_login(db, email, patch) ==
    IF patch = "ok" /\ email \in DOMAIN db
    THEN [db EXCEPT ![email].last_login = @ + 1]
    ELSE db

\* what authenticate_user does up to the verification of the password:
\* next is "upgrade" or "last_login" when it goes on to write, "done" when
\* it returns None after showing the error
AuthFailed(error) == [next |-> "done", user |-> NoUser, errors |-> <<error>>]

VerifyStored(user, password) ==
    IF verify_password(user.password, password) = Ret(JBool(TRUE))
    THEN [next |-> IF ~StartsWithArgon2(user.password) THEN "upgrade" ELSE "last_login",
          user |-> user, errors |-> <<>>]
    ELSE AuthFailed("Invalid email or password")

\* variant: the is_active column is not looked at
FindUser_NoActiveCheck(db, email, password, fetched) ==
    IF fetched # "ok" THEN AuthFailed("Failed to connect to authentication service")
    ELSE IF email \notin DOMAIN db THEN AuthFailed("Invalid email or password")
    ELSE VerifyStored(db[email], password)

FindUser(db, email, password, fetched) ==
    IF fetched # "ok" THEN AuthFailed("Failed to connect to authentication service")
    ELSE IF email \notin DOMAIN db THEN AuthFailed("Invalid email or password")
    ELSE IF ~Truthy(db[email].is_active)
    THEN AuthFailed("Your account has been deactivated. Please contact the administrator.")
    ELSE VerifyStored(db[email], password)

(***************************************************************************)
(* utils/admin_auth.py: AdminAuthManager.  Each operation gives the table  *)
(* after the call and the (success, message) pair it returns.              *)
(***************************************************************************)
AdminResult(db, success, message) ==
    [users |-> db, success |-> success, message |-> message]

\* POST /users: the store answers 201 and inserts the row, answers 409 for
\* an email it already holds, or fails
create_user(db, email, password, role, salt, post) ==
    IF post = "raises" THEN AdminResult(db, FALSE, "Failed to connect to database")
    ELSE IF post = "rejected"
    THEN AdminResult(db, FALSE, "Permission denied. Service role key may be missing or incorrect.")
    ELSE IF email \in DOMAIN db
    THEN AdminResult(db, FALSE, "User with email " \o email \o " already exists")
    ELSE AdminResult((email :> UserRow(email, hash_password(password, salt), JBool(TRUE), role, 0)) @@ db,
                     TRUE, "User created successfully!")

update_user_status(db, email, is_active, patch) ==
    IF patch = "raises" THEN AdminResult(db, FALSE, "Failed to connect to database")
    ELSE IF patch = "rejected" THEN AdminResult(db, FALSE, "Failed to update user status: 401")
    ELSE AdminResult(IF email \in DOMAIN db
                     THEN [db EXCEPT ![email].is_active = JBool(is_active)]
                     ELSE db,
                     TRUE,
                     "User " \o (IF is_active THEN "activated" ELSE "deactivated") \o " successfully")

reset_user_password(db, email, new_password, salt, patch) ==
    IF patch = "raises" THEN AdminResult(db, FALSE, "Failed to connect to database")
    ELSE IF patch = "rejected" THEN AdminResult(db, FALSE, "Failed to reset password: 401")
    ELSE AdminResult(PatchPassword(db, email, hash_password(new_password, salt)),
                     TRUE, "Password reset successfully")

\* create_admin.py: the password of the administrator the setup script
\* creates
AdminBootstrapPassword == Text("ChangeMe123!")

\* create_admin.py, create_admin_user: the table after the script.  It
\* stops when the lookup raises or finds the administrator; the POST
\* inserts the row unless the store holds the email (409) or fails.
create_admin_user(db, salt, fetched, post) ==
    IF fetched = "raises" THEN db
    ELSE IF fetched = "ok" /\ AdminEmail \in DOMAIN db THEN db
    ELSE IF post # "ok" \/ AdminEmail \in DOMAIN db THEN db
    ELSE (AdminEmail :> UserRow(AdminEmail, hash_password(AdminBootstrapPassword, salt),
                               JBool(TRUE), "admin", 0)) @@ db

\* DELETE /users?email=eq.<email>
delete_user(db, email, delete) ==
    IF delete = "raises" THEN AdminResult(db, FALSE, "Failed to connect to database")
    ELSE IF delete = "rejected" THEN AdminResult(db, FALSE, "Failed to delete user: 401")
    ELSE AdminResult([e \in DOMAIN db \ {email} |-> db[e]], TRUE, "User deleted successfully")

(***************************************************************************)
(* The session (st.session_state) and the guards of the pages.             *)
(***************************************************************************)
keys_to_clear == {"authenticated", "user_email", "user_name", "user_role", "user_id"}

\* variant: the login page writes the flag and the email only
LoginSession_FlagAndEmail(user) ==
    [authenticated |-> TRUE, user_email |-> user.email]

\* login.py: the keys written after authenticate_user returned a user
LoginSession(user) ==
    [authenticated |-> TRUE, user_email |-> user.email, user_name |-> user.name,
     user_role |-> user.role, user_id |-> user.id]

\* st.session_state.get('authenticated', False)
check_authentication(s) ==
    IF "authenticated" \in DOMAIN s THEN s["authenticated"] ELSE FALSE

\* "stop": st.stop() ends the run of the page; "pass": the run goes on
require_authentication(s) ==
    IF ~check_authentication(s) THEN "stop" ELSE "pass"

\* variant: the admin page asks for a login only
require_admin_AnyRole(s) == require_authentication(s)

require_admin(s) ==
    IF require_authentication(s) = "stop" THEN "stop"
    ELSE IF "user_role" \notin DOMAIN s THEN "stop"
    ELSE IF s["user_role"] # "admin" THEN "stop"
    ELSE "pass"

\* variant: logout forgets to remove the authenticated flag
logout_KeepFlag(s) == [k \in DOMAIN s \ (keys_to_clear \ {"authenticated"}) |-> s[k]]

\* the keys are deleted (the history is emptied by the action)
logout(s) == [k \in DOMAIN s \ keys_to_clear |-> s[k]]

\* the run of a page's script for a session: the page shown in the end
\* (st.switch_page runs another script) and how far its script got
PageRun(p, r) == [page |-> p, reached |-> r]

RunPage(p, s) ==
    CASE p = "login" ->
            IF check_authentication(s) /\ require_authentication(s) = "pass"
            THEN PageRun("main_app", "body")
            ELSE PageRun("login", "body")
      [] p = "main_app" ->
            IF ~check_authentication(s) THEN PageRun("login", "body")
            ELSE PageRun("main_app", IF require_authentication(s) = "pass" THEN "body" ELSE "stopped")
      [] p = "admin" ->
            PageRun("admin", IF require_admin(s) = "pass" THEN "body" ELSE "stopped")

\* pages/main_app.py, lines 27-32: the run of the chat page passes its guard
MainPageRuns ==
    /\ page = "main_app"
    /\ reached = "body"
    /\ RunPage("main_app", session) = PageRun("main_app", "body")

(***************************************************************************)
(* utils/config.py: ConfigManager.  os.environ and the .env file are maps  *)
(* from keys to values; the secrets file holds values under a dotted path  *)
(* and under the bare key.  None is JNull.                                 *)
(***************************************************************************)
DEFAULT_WEBHOOK_URL == "https://mbcrc.app.n8n.cloud/webhook/530ec5fa-656a-4c9c-bb05-5be7ff3bdef2"

NoFile == [exists |-> FALSE, entries |-> <<>>]
EnvFile(entries) == [exists |-> TRUE, entries |-> entries]
NoSecrets == [exists |-> FALSE, direct |-> <<>>, nested |-> <<>>]
SecretsFile(direct, nested) == [exists |-> TRUE, direct |-> direct, nested |-> nested]

\* variant: the .env file wins over the environment
load_env_file_Override(environ, file) ==
    IF file.exists
    THEN [k \in DOMAIN environ \cup DOMAIN file.entries |->
             IF k \in DOMAIN file.entries THEN file.entries[k] ELSE environ[k]]
    ELSE environ

\* _load_env_file: "Only set if not already in environment"
load_env_file(environ, file) ==
    IF file.exists
    THEN [k \in DOMAIN environ \cup DOMAIN file.entries |->
             IF k \in DOMAIN environ THEN environ[k] ELSE file.entries[k]]
    ELSE environ

secrets_file_exists(secret_store) == secret_store.exists

NotFoundError(key) ==
    Raise("ValueError", "Configuration key '" \o key
                        \o "' not found in environment, .env file, or Streamlit secrets")

\* the tail of get: the bare key in the secrets, then the default
GetDirect(secret_store, key, default) ==
    IF secrets_file_exists(secret_store) /\ key \in DOMAIN secret_store.direct
    THEN Ret(JStr(secret_store.direct[key]))
    ELSE IF default # JNull THEN Ret(default)
    ELSE NotFoundError(key)

get(environ, secret_store, key, default, fallback_path) ==
    IF key \in DOMAIN environ /\ environ[key] # ""
    THEN Ret(JStr(environ[key]))
    ELSE IF /\ Truthy(fallback_path)
            /\ secrets_file_exists(secret_store)
            /\ fallback_path.s \in DOMAIN secret_store.nested
    THEN Ret(JStr(secret_store.nested[fallback_path.s]))
    ELSE GetDirect(secret_store, key, default)

get_webhook_url(environ, secret_store) ==
    get(environ, secret_store, "DEFAULT_WEBHOOK_URL", JStr(DEFAULT_WEBHOOK_URL), JNull)

(***************************************************************************)
(* The parts of the state a specification leaves alone.                    *)
(***************************************************************************)
\* no call in flight; writes lists how the writes of the call ended
NoLogin == [pc |-> "idle", email |-> "", password |-> Text(""), user |-> NoUser,
            writes |-> <<>>]
\* what authenticate_user returned: a user ("user"), None ("None"), or
\* nothing yet ("none"), with how the writes of the call ended
AuthResult(kind, user, writes) == [kind |-> kind, user |-> user, writes |-> writes]
NoAuthResult == AuthResult("none", NoUser, <<>>)

AuthIdle ==
    /\ users = <<>>
    /\ session = <<>>
    /\ page = "login"
    /\ reached = "body"
    /\ login = NoLogin
    /\ auth_errors = <<>>
    /\ auth_result = NoAuthResult

ConfigIdle ==
    /\ os_environ = <<>>
    /\ env_file = NoFile
    /\ secrets = NoSecrets
    /\ cfg_arg = [key |-> "", default |-> JNull, fallback_path |-> JNull]
    /\ cfg_call = "none"
    /\ cfg_out = NoCall


(***************************************************************************)
(* SpecWebhook: one WebhookClient function applied to one parsed body.     *)
(***************************************************************************)
ChatIdle ==
    /\ messages = <<>>
    /\ is_processing = FALSE
    /\ auto_query = ""
    /\ errors = <<>>
    /\ last_http = [kind |-> "none", status |-> 0, body |-> JNull]
    /\ last_sent = NoCall
    /\ last_result = JNull

VerifyIdle ==
    /\ stored = [kind |-> "text", text |-> "", salt |-> 0]
    /\ supplied = [kind |-> "text", text |-> "", salt |-> 0]
    /\ verdict = NoCall

WebhookIdle ==
    /\ arg = JNull
    /\ call = "none"
    /\ out = NoCall

InitWebhook ==
    /\ arg \in Bodies
    /\ call = "none"
    /\ out = NoCall
    /\ ChatIdle
    /\ VerifyIdle
    /\ AuthIdle
    /\ ConfigIdle

CallNormalize ==
    /\ call = "none"
    /\ call' = "normalize_response_format"
    /\ out' = normalize_response_format(arg)
    /\ UNCHANGED <<arg, chatVars, verifyVars, authVars, configVars>>

\* the same body wrapped in a single-element array
CallNormalizeWrapped ==
    /\ call = "none"
    /\ call' = "normalize_response_format([x])"
    /\ out' = normalize_response_format(JList(<<arg>>))
    /\ UNCHANGED <<arg, chatVars, verifyVars, authVars, configVars>>

CallValidate ==
    /\ call = "none"
    /\ call' = "validate_response"
    /\ out' = validate_response(arg)
    /\ UNCHANGED <<arg, chatVars, verifyVars, authVars, configVars>>

CallExtractError ==
    /\ call = "none"
    /\ call' = "extract_error_message"
    /\ out' = extract_error_message(arg)
    /\ UNCHANGED <<arg, chatVars, verifyVars, authVars, configVars>>

NextWebhook ==
    \/ CallNormalize
    \/ CallNormalizeWrapped
    \/ CallValidate
    \/ CallExtractError

SpecWebhook == InitWebhook /\ [][NextWebhook]_vars

(***************************************************************************)
(* send_message: the HTTP exchange and what is made of it.                 *)
(***************************************************************************)
Http(kind, status, body) == [kind |-> kind, status |-> status, body |-> body]

InvalidFormatMessage == "Invalid response format from classification service"

\* variant: every status is reported by its number alone, without a hint
HttpErrorMessage_NumberOnly(status_code) ==
    "Server error: " \o ToString(status_code)

HttpErrorMessage(status_code) ==
    CASE status_code = 404 ->
            "Webhook not found (404). Please check:\n"
            \o "- Is the webhook URL correct?\n"
            \o "- Is the n8n workflow activated?\n"
            \o "- Is the webhook node properly configured?"
      [] status_code = 405 ->
            "Method not allowed (405). The webhook may not accept POST requests."
      [] status_code = 500 ->
            "Server error (500). There may be an issue with the n8n workflow."
      [] status_code = 403 ->
            "Access forbidden (403). Check webhook permissions and authentication."
      [] OTHER -> "Server error: " \o ToString(status_code)

\* an exception of normalize_response_format is caught by "except Exception"
Normalized(normalized_response) ==
    IF Raised(normalized_response)
    THEN Raise("RuntimeError", "Unexpected error: " \o normalized_response.msg)
    ELSE normalized_response

\* kind: "timeout" and "connection_error" are what requests.post raises,
\* "request_error" any other exception of it, "http_error" a 4xx/5xx status,
\* "invalid_json" a body response.json() cannot parse, "ok" a parsed body.
send_message(http) ==
    CASE http.kind = "timeout" ->
            Raise("TimeoutError", "Classification request timed out")
      [] http.kind = "connection_error" ->
            Raise("ConnectionError", "Failed to connect to classification service")
      [] http.kind = "http_error" ->
            Raise("ValueError", HttpErrorMessage(http.status))
      [] http.kind = "invalid_json" ->
            Raise("ValueError", InvalidFormatMessage)
      [] http.kind = "request_error" ->
            Raise("RuntimeError", "Unexpected error: " \o "request failed")
      [] http.kind = "ok" -> Normalized(normalize_response_format(http.body))

(***************************************************************************)
(* pages/main_app.py: send_to_webhook.  The result is what it returns      *)
(* (None as JNull) and the st.error texts it shows (without the leading    *)
(* symbol).                                                                *)
(***************************************************************************)
RetryMessage ==
    "There was an error processing your request. Please verify that the researcher name is correct. "
    \o "If you're certain the name is accurate, try submitting your request again."

\* '"Invalid JSON response" in str(e) or "Invalid response format" in str(e)':
\* of the messages send_message gives a ValueError, one holds the phrase
MentionsInvalidFormat(msg) == msg = InvalidFormatMessage

Shown(result, error) == [result |-> result, errors |-> <<error>>]

HandleException(e) ==
    CASE e.exc = "TimeoutError" -> Shown(JNull, RetryMessage)
      [] e.exc = "ConnectionError" ->
            Shown(JNull, "Failed to connect to the classification service. Please check the webhook URL.")
      [] e.exc = "ValueError" ->
            IF MentionsInvalidFormat(e.msg)
            THEN Shown(JNull, RetryMessage)
            ELSE Shown(JNull, "Service error: " \o e.msg)
      [] OTHER -> Shown(JNull, "Unexpected error: " \o e.msg)

\* "if error_msg: st.error(error_msg) else: st.error(<invalid format>)"
ShowInvalid(error_msg) ==
    IF Raised(error_msg) THEN HandleException(error_msg)
    ELSE IF Truthy(error_msg.val) THEN Shown(JNull, error_msg.val.s)
    ELSE Shown(JNull, InvalidFormatMessage)

\* "if not client.validate_response(response): ... return None"
CheckValid(response, valid) ==
    IF Raised(valid) THEN HandleException(valid)
    ELSE IF valid.val = JBool(TRUE) THEN [result |-> response, errors |-> <<>>]
    ELSE ShowInvalid(extract_error_message(response))

\* the body of the try block once send_message has returned or raised
HandleSent(response) ==
    IF Raised(response) THEN HandleException(response)
    ELSE CheckValid(response.val, validate_response(response.val))

send_to_webhook(http) == HandleSent(send_message(http))

(***************************************************************************)
(* pages/main_app.py: the chat page.                                       *)
(***************************************************************************)
Prompts == {"Who is Dr. Jane Smith?"}
Researchers == {"Colin Barrow"}

\* the bodies the webhook answers a chat query with
ChatBodies ==
    { MetadataBody,
      JDict("llm_classification" :> JDict("primary_classifications" :> JList(<<EntryFull>>))
            @@ "researcher_name" :> JStr("R")),
      JDict("llm_classification" :> EmptyDict),
      JDict("llm_classification" :> EmptyDict @@ "error" :> JStr("X")),
      JDict("llm_classification" :> JNull),
      JDict("error" :> JStr("X")),
      JDict("validation_guardrail" :> JDict("validation_status" :> JStr("not_found"))),
      JDict("enriched_biography" :> JNull),
      EmptyDict,
      JList(<<JDict("researcher_name" :> JStr("R"))>>),
      EmptyList,
      JList(<<JStr("hello")>>),
      JStr("hello"),
      JNull }

HttpOutcomes ==
    {Http(k, 0, JNull) : k \in {"timeout", "connection_error", "request_error"}}
        \cup {Http("http_error", c, JNull) : c \in {404, 405, 500, 403, 502}}
        \cup {Http("invalid_json", 200, JNull)}
        \cup {Http("ok", 200, b) : b \in ChatBodies}

UserMessage(prompt) ==
    [role |-> "user", type |-> "", content |-> prompt, data |-> JNull]
AssistantMessage(response_data) ==
    [role |-> "assistant", type |-> "classification", content |-> "", data |-> response_data]

\* the session of the chat page: a user has logged in
ChatUser == UserRow(StaffEmail, Argon2Hash("pw2", 1), JBool(TRUE), "user", 1)

Init ==
    /\ ChatIdle
    /\ WebhookIdle
    /\ VerifyIdle
    /\ ConfigIdle
    /\ users = (StaffEmail :> ChatUser)
    /\ session = LoginSession(ChatUser)
    /\ page = "main_app"
    /\ reached = "body"
    /\ login = NoLogin
    /\ auth_errors = <<>>
    /\ auth_result = AuthResult("user", ChatUser, <<"ok">>)

\* one run of the message-input block for a prompt: the user message, the
\* webhook call, the assistant message when there is a result
Submitted(prompt, http, sent, answer) ==
    /\ messages' = IF Truthy(answer.result)
                   THEN Append(Append(messages, UserMessage(prompt)),
                               AssistantMessage(answer.result))
                   ELSE Append(messages, UserMessage(prompt))
    /\ is_processing' = FALSE
    /\ errors' = answer.errors
    /\ last_http' = http
    /\ last_sent' = sent
    /\ last_result' = answer.result

Submission(prompt, http) ==
    Submitted(prompt, http, send_message(http), send_to_webhook(http))

\* the user types a prompt into st.chat_input
ChatSubmit ==
    /\ MainPageRuns
    /\ ~is_processing
    /\ auto_query = ""
    /\ Len(messages) + 2 <= 2 * MaxSubmits
    /\ \E prompt \in Prompts, http \in HttpOutcomes : Submission(prompt, http)
    /\ UNCHANGED <<auto_query, webhookVars, verifyVars, authVars, configVars>>

\* "Query this researcher": the query is stored and the page reruns
SelectResearcher ==
    /\ MainPageRuns
    /\ auto_query = ""
    /\ \E name \in Researchers : auto_query' = "Who is " \o name \o "?"
    /\ errors' = <<>>
    /\ UNCHANGED <<messages, is_processing, last_http, last_sent, last_result,
                   webhookVars, verifyVars, authVars, configVars>>

\* the rerun takes the stored query as the prompt and clears it
AutoQuerySubmit ==
    /\ MainPageRuns
    /\ ~is_processing
    /\ auto_query # ""
    /\ Len(messages) + 2 <= 2 * MaxSubmits
    /\ \E http \in HttpOutcomes : Submission(auto_query, http)
    /\ auto_query' = ""
    /\ UNCHANGED <<webhookVars, verifyVars, authVars, configVars>>

\* "Clear Chat History"
ClearChatHistory ==
    /\ MainPageRuns
    /\ messages' = <<>>
    /\ errors' = <<>>
    /\ UNCHANGED <<is_processing, auto_query, last_http, last_sent, last_result,
                   webhookVars, verifyVars, authVars, configVars>>

Next ==
    \/ ChatSubmit
    \/ SelectResearcher
    \/ AutoQuerySubmit
    \/ ClearChatHistory

Spec == Init /\ [][Next]_vars

(***************************************************************************)
(* SpecChatRun: the chat page with the handling of a submission in two     *)
(* steps, as the script runs it: the user message is appended and          *)
(* is_processing set (lines 325-339), then send_to_webhook returns, the    *)
(* flag is reset, the answer appended and the page rerun (342-362).        *)
(* reached = "webhook" while the script is inside send_to_webhook.  The    *)
(* request has a timeout, so the second step is taken: WF on FinishSubmit. *)
(***************************************************************************)
\* variant: the flag is reset only when there is a result
Answered_ResetOnResult(http, sent, answer) ==
    /\ messages' = IF Truthy(answer.result)
                   THEN Append(messages, AssistantMessage(answer.result))
                   ELSE messages
    /\ is_processing' = ~Truthy(answer.result)
    /\ errors' = answer.errors
    /\ last_http' = http
    /\ last_sent' = sent
    /\ last_result' = answer.result

\* lines 342-362: the flag is reset whatever send_to_webhook returned
Answered(http, sent, answer) ==
    /\ messages' = IF Truthy(answer.result)
                   THEN Append(messages, AssistantMessage(answer.result))
                   ELSE messages
    /\ is_processing' = FALSE
    /\ errors' = answer.errors
    /\ last_http' = http
    /\ last_sent' = sent
    /\ last_result' = answer.result

\* the prompt of the run: the stored auto query, else what the user typed
BeginSubmit ==
    /\ MainPageRuns
    /\ ~is_processing
    /\ Len(messages) + 2 <= 2 * MaxSubmits
    /\ \E prompt \in (IF auto_query # "" THEN {auto_query} ELSE Prompts) :
          messages' = Append(messages, UserMessage(prompt))
    /\ auto_query' = ""
    /\ is_processing' = TRUE
    /\ reached' = "webhook"
    /\ UNCHANGED <<errors, last_http, last_sent, last_result, users, session, page,
                   login, auth_errors, auth_result, webhookVars, verifyVars, configVars>>

FinishSubmit ==
    /\ page = "main_app"
    /\ reached = "webhook"
    /\ \E http \in HttpOutcomes : Answered(http, send_message(http), send_to_webhook(http))
    /\ reached' = RunPage("main_app", session).reached
    /\ UNCHANGED <<auto_query, users, session, page, login, auth_errors, auth_result,
                   webhookVars, verifyVars, configVars>>

NextChatRun ==
    \/ BeginSubmit
    \/ FinishSubmit
    \/ SelectResearcher
    \/ ClearChatHistory

SpecChatRun == Init /\ [][NextChatRun]_vars /\ WF_vars(FinishSubmit)

(***************************************************************************)
(* SpecVerify: verify_password applied to a stored and a supplied string.  *)
(***************************************************************************)
InitVerify ==
    /\ stored \in PasswordStrings
    /\ supplied \in PasswordStrings
    /\ verdict = NoCall
    /\ ChatIdle
    /\ WebhookIdle
    /\ AuthIdle
    /\ ConfigIdle

VerifyPassword ==
    /\ verdict = NoCall
    /\ verdict' = verify_password(stored, supplied)
    /\ UNCHANGED <<stored, supplied, chatVars, webhookVars, authVars, configVars>>

NextVerify == VerifyPassword

SpecVerify == InitVerify /\ [][NextVerify]_vars

(***************************************************************************)
(* SpecAuth: one browser session over the credential store.  The login     *)
(* page (login.py), the guards of the chat page and of the admin panel,    *)
(* logout, and the operations of the admin panel (pages/admin.py).         *)
(* authenticate_user makes up to three requests to the store; each is a    *)
(* step of the call in flight.                                             *)
(***************************************************************************)
Pages == {"login", "main_app", "admin"}

\* what a user may type as an email: nothing, the email of a stored user,
\* or one the store does not hold
LoginEmails == {"", AdminEmail, StaffEmail, "nobody@deakin.edu.au"}

\* what a user may type as a password: a text, or the stored string itself
LoginPasswords(db, email) ==
    {Text(p) : p \in PlainTexts \cup PrefixedTexts}
        \cup {AdminBootstrapPassword}
        \cup (IF email \in DOMAIN db THEN {db[email].password} ELSE {})

\* generate_temp_password()
TempPasswords == {Text("pw1")}

\* the stored passwords of a legacy record and of a migrated one
LegacyPasswords == {Text("pw2"), Text("$argon2-legacy"), Argon2Hash("pw2", 1)}

\* the users table of a new deployment
EmptyTable == <<>>

InitialUsers(password, is_active) ==
    (AdminEmail :> UserRow(AdminEmail, Argon2Hash("pw1", 1), JBool(TRUE), "admin", 0))
        @@ (StaffEmail :> UserRow(StaffEmail, password, is_active, "user", 0))

\* the answer of the webhook to a query of the session
SessionHttpOutcomes == {Http("ok", 200, MetadataBody)}

InitAuth ==
    /\ users \in {InitialUsers(p, a) : p \in LegacyPasswords,
                                       a \in {JBool(TRUE), JBool(FALSE), JNull}}
                    \cup {EmptyTable}
    /\ session = <<>>
    /\ page = "login"
    /\ reached = "body"
    /\ login = NoLogin
    /\ auth_errors = <<>>
    /\ auth_result = NoAuthResult
    /\ ChatIdle
    /\ WebhookIdle
    /\ VerifyIdle
    /\ ConfigIdle

\* the user opens a page (sidebar, link or address bar)
Opened(shown) ==
    /\ page' = shown.page
    /\ reached' = shown.reached
    /\ auth_errors' = <<>>

OpenPage ==
    /\ login.pc = "idle"
    /\ \E p \in Pages : Opened(RunPage(p, session))
    /\ UNCHANGED <<users, session, login, auth_result, chatVars, webhookVars,
                   verifyVars, configVars>>

\* login.py, "if submit": blank fields, or the first request of
\* authenticate_user and the verification of the password
LoginRead(email, password, found) ==
    /\ login' = IF found.next = "done" THEN NoLogin
                ELSE [pc |-> found.next, email |-> email, password |-> password,
                      user |-> found.user, writes |-> <<>>]
    /\ auth_errors' = found.errors
    /\ auth_result' = IF found.next = "done" THEN AuthResult("None", NoUser, <<>>)
                      ELSE NoAuthResult

LoginBlank ==
    /\ login' = NoLogin
    /\ auth_errors' = <<"Please enter both email and password">>
    /\ auth_result' = NoAuthResult

LoginSubmit ==
    /\ page = "login"
    /\ reached = "body"
    /\ login.pc = "idle"
    /\ RunPage("login", session).page = "login"
    /\ \E email \in LoginEmails :
          /\ email \in DOMAIN users => users[email].last_login < MaxLogins
          /\ \E password \in LoginPasswords(users, email), fetched \in StoreOutcomes :
                IF email = "" THEN LoginBlank
                ELSE LoginRead(email, password, FindUser(users, email, password, fetched))
    /\ UNCHANGED <<users, session, page, reached, chatVars, webhookVars,
                   verifyVars, configVars>>

\* authenticate_user, line 124: the upgrade of a plain-text password
Upgraded(up, patch) ==
    /\ users' = up.users
    /\ login' = IF up.raised THEN NoLogin
                ELSE [login EXCEPT !.pc = "last_login", !.writes = Append(@, patch)]
    /\ auth_errors' = IF up.raised THEN <<"Authentication failed. Please try again.">>
                      ELSE auth_errors
    /\ auth_result' = IF up.raised THEN AuthResult("None", NoUser, Append(login.writes, patch))
                      ELSE auth_result

LoginUpgrade ==
    /\ login.pc = "upgrade"
    /\ \E salt \in FreshSalts(login.user.password), patch \in StoreOutcomes :
          Upgraded(upgrade_password_to_hash(users, login.email, login.password, salt, patch),
                   patch)
    /\ UNCHANGED <<session, page, reached, chatVars, webhookVars, verifyVars,
                   configVars>>

\* authenticate_user, lines 127-128, and login.py, lines 153-166: the last
\* login is written, the user returned, the session filled and the chat
\* page opened
LoggedIn(new_session) ==
    /\ session' = new_session
    /\ page' = RunPage("main_app", new_session).page
    /\ reached' = RunPage("main_app", new_session).reached

LoginUpdateLastLogin ==
    /\ login.pc = "last_login"
    /\ \E patch \in StoreOutcomes :
          /\ users' = update_last_login(users, login.email, patch)
          /\ auth_result' = AuthResult("user", login.user, Append(login.writes, patch))
    /\ LoggedIn(LoginSession(login.user) @@ session)
    /\ login' = NoLogin
    /\ auth_errors' = <<>>
    /\ UNCHANGED <<chatVars, webhookVars, verifyVars, configVars>>

\* the "Logout" button of the chat page and of the admin panel: the keys
\* are deleted, the history emptied, and st.rerun runs the page again
LoggedOut(new_session) ==
    /\ session' = new_session
    /\ page' = RunPage(page, new_session).page
    /\ reached' = RunPage(page, new_session).reached

Logout ==
    /\ login.pc = "idle"
    /\ page \in {"main_app", "admin"}
    /\ reached = "body"
    /\ RunPage(page, session).reached = "body"
    /\ LoggedOut(logout(session))
    /\ messages' = <<>>
    /\ auth_errors' = <<>>
    /\ UNCHANGED <<users, login, auth_result, is_processing, auto_query, errors,
                   last_http, last_sent, last_result, webhookVars, verifyVars,
                   configVars>>

\* a chat submission of the session
SessionChat ==
    /\ login.pc = "idle"
    /\ MainPageRuns
    /\ ~is_processing
    /\ Len(messages) + 2 <= 2 * MaxSessionSubmits
    /\ \E prompt \in Prompts, http \in SessionHttpOutcomes : Submission(prompt, http)
    /\ UNCHANGED <<auto_query, users, session, page, reached, login, auth_errors,
                   auth_result, webhookVars, verifyVars, configVars>>

\* pages/admin.py, line 23: the run of the admin panel passes require_admin
AdminPageRuns ==
    /\ login.pc = "idle"
    /\ page = "admin"
    /\ reached = "body"
    /\ RunPage("admin", session) = PageRun("admin", "body")

\* the outcome of an operation of the panel: st.success or st.error
AdminDone(result) ==
    /\ users' = result.users
    /\ auth_errors' = IF result.success THEN <<>> ELSE <<result.message>>

\* "Select User": the administrator at work is not on the list; the model
\* selects the staff member
SelectableUsers == (DOMAIN users \ {session["user_email"]}) \cap {StaffEmail}

AdminCreateUser ==
    /\ AdminPageRuns
    /\ \E new_email \in {NewEmail, StaffEmail}, new_password \in TempPasswords,
          new_role \in {"user"}, salt \in CreatedSalts, post \in StoreOutcomes :
          AdminDone(create_user(users, new_email, new_password, new_role, salt, post))
    /\ UNCHANGED <<session, page, reached, login, auth_result, chatVars,
                   webhookVars, verifyVars, configVars>>

\* "Deactivate User" for an active user, "Activate User" otherwise
AdminUpdateUserStatus ==
    /\ AdminPageRuns
    /\ \E selected_user \in SelectableUsers, patch \in StoreOutcomes :
          AdminDone(update_user_status(users, selected_user,
                                       ~Truthy(users[selected_user].is_active), patch))
    /\ UNCHANGED <<session, page, reached, login, auth_result, chatVars,
                   webhookVars, verifyVars, configVars>>

AdminResetPassword ==
    /\ AdminPageRuns
    /\ \E selected_user \in SelectableUsers, new_password \in TempPasswords,
          patch \in StoreOutcomes :
       \E salt \in FreshSalts(users[selected_user].password) :
          AdminDone(reset_user_password(users, selected_user, new_password, salt, patch))
    /\ UNCHANGED <<session, page, reached, login, auth_result, chatVars,
                   webhookVars, verifyVars, configVars>>

\* "Delete User": the button answers with an error and calls nothing
AdminDeleteButton ==
    /\ AdminPageRuns
    /\ SelectableUsers # {}
    /\ AdminDone(AdminResult(users, FALSE, "User deletion is permanently disabled for safety"))
    /\ UNCHANGED <<session, page, reached, login, auth_result, chatVars,
                   webhookVars, verifyVars, configVars>>

\* a call of AdminAuthManager.delete_user, the manager of the admin panel
AdminDeleteUser ==
    /\ AdminPageRuns
    /\ \E email \in SelectableUsers, delete \in StoreOutcomes :
          AdminDone(delete_user(users, email, delete))
    /\ UNCHANGED <<session, page, reached, login, auth_result, chatVars,
                   webhookVars, verifyVars, configVars>>

\* create_admin.py is run from a shell.  A run that finds the administrator
\* returns at once and changes nothing: it is a stuttering step.
CreateAdminUser ==
    /\ login.pc = "idle"
    /\ AdminEmail \notin DOMAIN users
    /\ \E salt \in CreatedSalts, fetched \in StoreOutcomes, post \in StoreOutcomes :
          users' = create_admin_user(users, salt, fetched, post)
    /\ UNCHANGED <<session, page, reached, login, auth_errors, auth_result,
                   chatVars, webhookVars, verifyVars, configVars>>

NextAuth ==
    \/ OpenPage
    \/ LoginSubmit
    \/ LoginUpgrade
    \/ LoginUpdateLastLogin
    \/ Logout
    \/ SessionChat
    \/ AdminCreateUser
    \/ AdminUpdateUserStatus
    \/ AdminResetPassword
    \/ AdminDeleteButton
    \/ AdminDeleteUser
    \/ CreateAdminUser

SpecAuth == InitAuth /\ [][NextAuth]_vars

(***************************************************************************)
(* SpecRace: the login of SpecAuth with an administrator at work in        *)
(* another browser session.  The store is shared: between two requests of  *)
(* an authenticate_user call in flight the administrator's "Reset          *)
(* Password" (pages/admin.py, AdminAuthManager.reset_user_password) may    *)
(* write the row the call has read.                                        *)
(***************************************************************************)
ConcurrentResetPassword ==
    /\ login.pc # "idle"
    /\ login.email \in DOMAIN users \ {AdminEmail}
    /\ \E new_password \in TempPasswords, patch \in StoreOutcomes :
       \E salt \in FreshSalts(users[login.email].password) :
          users' = reset_user_password(users, login.email, new_password, salt, patch).users
    /\ UNCHANGED <<session, page, reached, login, auth_errors, auth_result,
                   chatVars, webhookVars, verifyVars, configVars>>

NextRace ==
    \/ LoginSubmit
    \/ LoginUpgrade
    \/ LoginUpdateLastLogin
    \/ ConcurrentResetPassword
    \/ Logout

SpecRace == InitAuth /\ [][NextRace]_vars

(***************************************************************************)
(* SpecConfig: the ConfigManager over one deployment: what the process     *)
(* environment, the .env file and the secrets file hold for a key, then    *)
(* the construction of the manager and one call of get or get_webhook_url. *)
(***************************************************************************)
ConfigKeys == {"DEFAULT_WEBHOOK_URL", "SUPABASE_URL"}
FallbackPath(key) == "connections.supabase." \o key

EnvironOptions(key) == {<<>>, key :> "", key :> "from-environment"}
EnvFileOptions(key) ==
    {NoFile, EnvFile(<<>>), EnvFile(key :> ""), EnvFile(key :> "from-env-file")}
SecretsOptions(key) ==
    {NoSecrets} \cup
    {SecretsFile(d, n) : d \in {<<>>, key :> "from-secrets"},
                         n \in {<<>>, FallbackPath(key) :> "from-secrets-path"}}
ArgOptions(key) ==
    {[key |-> key, default |-> d, fallback_path |-> f] :
        d \in {JNull, JStr("the-default")}, f \in {JNull, JStr(FallbackPath(key))}}

InitConfig ==
    /\ \E key \in ConfigKeys :
          /\ os_environ \in EnvironOptions(key)
          /\ env_file \in EnvFileOptions(key)
          /\ secrets \in SecretsOptions(key)
          /\ cfg_arg \in ArgOptions(key)
    /\ cfg_call = "none"
    /\ cfg_out = NoCall
    /\ ChatIdle
    /\ WebhookIdle
    /\ VerifyIdle
    /\ AuthIdle

\* config = ConfigManager()
Construct ==
    /\ cfg_call = "none"
    /\ cfg_call' = "ConfigManager"
    /\ os_environ' = load_env_file(os_environ, env_file)
    /\ UNCHANGED <<env_file, secrets, cfg_arg, cfg_out, chatVars, webhookVars,
                   verifyVars, authVars>>

CallGet ==
    /\ cfg_call = "ConfigManager"
    /\ cfg_call' = "get"
    /\ cfg_out' = get(os_environ, secrets, cfg_arg.key, cfg_arg.default, cfg_arg.fallback_path)
    /\ UNCHANGED <<os_environ, env_file, secrets, cfg_arg, chatVars, webhookVars,
                   verifyVars, authVars>>

\* pages/main_app.py, line 45: the webhook URL of the session
CallGetWebhookUrl ==
    /\ cfg_call = "ConfigManager"
    /\ cfg_call' = "get_webhook_url"
    /\ cfg_out' = get_webhook_url(os_environ, secrets)
    /\ UNCHANGED <<os_environ, env_file, secrets, cfg_arg, chatVars, webhookVars,
                   verifyVars, authVars>>

NextConfig ==
    \/ Construct
    \/ CallGet
    \/ CallGetWebhookUrl

SpecConfig == InitConfig /\ [][NextConfig]_vars

(***************************************************************************)
(* Properties.                                                             *)
(***************************************************************************)
\* the effective payload has a non-empty primary-classifications list
\* (direct or nested) or a non-empty researcher name
HasClassificationsOrName(payload) ==
    /\ IsDict(payload)
    /\ \/ Truthy(GetOrNone(payload, "primary_classifications"))
       \/ /\ Has(payload, "llm_classification")
          /\ IsDict(payload.keys["llm_classification"])
          /\ Truthy(GetOrNone(payload.keys["llm_classification"], "primary_classifications"))
       \/ Truthy(GetOrNone(payload, "researcher_name"))

\* a flat-format payload: a dict without the nested classification key
IsFlat(payload) == IsDict(payload) /\ ~Has(payload, "llm_classification")

\* the last message of the history is an assistant 'classification' message
ClassificationAppended ==
    /\ messages # <<>>
    /\ messages[Len(messages)].role = "assistant"
    /\ messages[Len(messages)].type = "classification"

\* C1: a webhook payload that has neither a non-empty primary-classifications
\* list (direct or nested) nor a non-empty researcher_name gives no result
\* from send_to_webhook and no 'classification' message in the history.
C1_InvalidPayloadRejected ==
    (last_http.kind = "ok" /\ ~HasClassificationsOrName(UnwrapArray(last_http.body)))
        => (last_result = JNull /\ ~ClassificationAppended)

\* C2: verify_password on a stored Argon2 hash returns true for the correct
\* plaintext and false, without raising, for every other supplied value; on
\* a stored value without the '$argon2' prefix it returns true iff stored
\* equals supplied.
C2_VerifyPassword ==
    verdict # NoCall =>
        /\ stored.kind = "argon2" =>
               verdict = Ret(JBool(supplied = Text(stored.text)))
        /\ ~StartsWithArgon2(stored) =>
               verdict = Ret(JBool(stored = supplied))

\* C3: validate_response(p) returns true if and only if the effective payload
\* (p, or its first element when p is a non-empty array) has a non-empty
\* top-level primary_classifications, a non-empty
\* llm_classification.primary_classifications or a non-empty researcher_name.
C3_ValidateIff ==
    call = "validate_response" =>
        ((out = Ret(JBool(TRUE))) <=> HasClassificationsOrName(UnwrapArray(arg)))

\* C4: a payload that holds the key llm_classification, whatever its value
\* and its other keys, is returned unchanged by normalize_response_format.
C4_NestedIdentity ==
    (call = "normalize_response_format" /\ IsDict(arg) /\ Has(arg, "llm_classification"))
        => out = Ret(arg)

\* C4 witness: a nested payload with a null classification block and other
\* keys beside it has been normalized
C4_Witness ==
    /\ call = "normalize_response_format"
    /\ IsDict(arg)
    /\ Has(arg, "llm_classification")
    /\ arg.keys["llm_classification"] = JNull
    /\ Has(arg, "primary_classifications")
    /\ Has(arg, "researcher_name")
    /\ Returned(out)

\* C5 as stated: for every payload x, normalize([x]) == normalize(x).
C5_WrappedEqualsPlain ==
    call = "normalize_response_format([x])" => out = normalize_response_format(arg)

\* C5 amended: for every payload x that is not itself a non-empty array,
\* normalize([x]) == normalize(x) (the same value, or the same exception).
C5_WrappedEqualsPlainUnlessArray ==
    (call = "normalize_response_format([x])" /\ ~(IsList(arg) /\ Len(arg.items) > 0))
        => out = normalize_response_format(arg)

\* C5 witness: a flat object wrapped in an array has been reshaped
C5_Witness ==
    /\ call = "normalize_response_format([x])"
    /\ IsFlat(arg)
    /\ Has(arg, "primary_classifications")
    /\ Returned(out)
    /\ out.val # arg
    /\ out.val # JList(<<arg>>)

\* C6: for a flat payload without the key primary_classifications, whatever
\* the biography holds (absent or null included), normalize_response_format
\* does not raise and returns an empty llm_classification.primary_classifications.
\* (Stated for payloads whose secondary_classifications is absent or a list.)
C6_MissingPrimaryGivesEmptyList ==
    ( /\ call = "normalize_response_format"
      /\ IsFlat(arg)
      /\ ~Has(arg, "primary_classifications")
      /\ Get(arg, "secondary_classifications", EmptyList).t = "list" )
        => /\ Returned(out)
           /\ out.val.keys["llm_classification"].keys["primary_classifications"] = EmptyList

\* C7: a researcher_name supplied by a flat payload (as in the bare array
\* [{"researcher_name": "R"}]) passes validate_response and is the
\* researcher_name of the normalized result.
C7_ResearcherNamePreserved ==
    ( /\ call = "normalize_response_format"
      /\ IsFlat(UnwrapArray(arg))
      /\ Truthy(GetOrNone(UnwrapArray(arg), "researcher_name"))
      /\ Returned(out) )
        => /\ validate_response(arg) = Ret(JBool(TRUE))
           /\ out.val.keys["researcher_name"] = UnwrapArray(arg).keys["researcher_name"]

\* the record C8 describes for one raw entry
MapsEntry(raw, rec) ==
    /\ rec.keys["field_name"] = (IF Has(raw, "field_name") THEN raw.keys["field_name"] ELSE JStr(""))
    /\ rec.keys["field_number"] = (IF Has(raw, "field_number") THEN raw.keys["field_number"] ELSE JStr(""))
    /\ rec.keys["confidence"] = (IF Has(raw, "llm_confidence") THEN raw.keys["llm_confidence"] ELSE JStr("medium"))
    /\ rec.keys["reasoning"] = (IF Has(raw, "llm_reasoning") THEN raw.keys["llm_reasoning"] ELSE JStr(""))
    /\ rec.keys["evidence_keywords"] = (IF Has(raw, "evidence_keywords") THEN raw.keys["evidence_keywords"] ELSE EmptyList)
    /\ \A k \in {"field_semantic_score", "field_combined_score"} :
          rec.keys[k] = (IF Has(raw, k) THEN raw.keys[k] ELSE JNull)

MapsList(raw, recs) ==
    /\ IsList(recs)
    /\ Len(recs.items) = Len(raw.items)
    /\ \A i \in 1..Len(raw.items) : MapsEntry(raw.items[i], recs.items[i])

\* C8: in the flat path the output primary (secondary) list has one record
\* per raw entry of primary_classifications (secondary_classifications), in
\* the same order: field_name and field_number copied, confidence the
\* entry's llm_confidence or "medium", reasoning its llm_reasoning or empty,
\* evidence_keywords its list or empty, the scores passed through and null,
\* not zero, when absent.
C8_ClassificationsMapped ==
    ( /\ call = "normalize_response_format"
      /\ IsFlat(arg)
      /\ Returned(out) )
        => /\ MapsList(Get(arg, "primary_classifications", EmptyList),
                       out.val.keys["llm_classification"].keys["primary_classifications"])
           /\ MapsList(Get(arg, "secondary_classifications", EmptyList),
                       out.val.keys["llm_classification"].keys["secondary_classifications"])

\* C8 witness: two primary entries (one with every field, one with hardly
\* any) and a secondary entry have been converted
C8_Witness ==
    /\ call = "normalize_response_format"
    /\ IsFlat(arg)
    /\ Get(arg, "primary_classifications", EmptyList) = JList(<<EntryFull, EntryBare>>)
    /\ Get(arg, "secondary_classifications", EmptyList) = JList(<<EntrySecondary>>)
    /\ Returned(out)

\* what C9 says extract_error_message returns
ExpectedErrorMessage(payload) ==
    LET present == {i \in 1..Len(error_fields) :
                       /\ Has(payload, error_fields[i])
                       /\ Truthy(payload.keys[error_fields[i]])}
    IN  IF present # {}
        THEN JStr(PyStr(payload.keys[error_fields[CHOOSE i \in present : \A j \in present : i <= j]]))
        ELSE IF /\ Has(payload, "validation_guardrail")
                /\ IsDict(payload.keys["validation_guardrail"])
                /\ GetOrNone(payload.keys["validation_guardrail"], "validation_status") = JStr("not_found")
        THEN JStr(NotFoundMessage)
        ELSE JNull

\* C9: extract_error_message returns the (text of the) value of the first of
\* error, error_message, validation_error, termination_reason that is
\* present and non-empty; else the fixed "not found" message when
\* validation_guardrail.validation_status is 'not_found'; else None.
C9_ExtractErrorMessage ==
    (call = "extract_error_message" /\ IsDict(arg))
        => out = Ret(ExpectedErrorMessage(arg))

\* the MalformedResponse of send_message
MalformedResponse(sent) ==
    Raised(sent) /\ sent.exc = "ValueError" /\ sent.msg = InvalidFormatMessage

\* C10: when the parsed body, after unwrapping a top-level array, is not a
\* keyed structure, send_message fails with MalformedResponse instead of
\* returning a value.
C10_NonObjectIsMalformed ==
    (last_http.kind = "ok" /\ ~IsDict(UnwrapArray(last_http.body)))
        => MalformedResponse(last_sent)

\* the status-specific hints of an HttpError
StatusHint(status_code) ==
    CASE status_code = 404 -> "Is the n8n workflow activated?"
      [] status_code = 405 -> "Method not allowed (405)"
      [] status_code = 500 -> "issue with the n8n workflow"
      [] status_code = 403 -> "Access forbidden (403)"
      [] OTHER -> ToString(status_code)

\* the hint is part of the message: the message is what stands before the
\* hint, the hint, and what stands after it
CarriesHint(msg, status_code) ==
    CASE status_code = 404 ->
            msg = "Webhook not found (404). Please check:\n"
                  \o "- Is the webhook URL correct?\n- "
                  \o StatusHint(404)
                  \o "\n- Is the webhook node properly configured?"
      [] status_code = 405 ->
            msg = StatusHint(405) \o ". The webhook may not accept POST requests."
      [] status_code = 500 ->
            msg = "Server error (500). There may be an " \o StatusHint(500) \o "."
      [] status_code = 403 ->
            msg = StatusHint(403) \o ". Check webhook permissions and authentication."
      [] OTHER -> msg = "Server error: " \o StatusHint(status_code)

\* C11: an HTTP error status makes send_message raise the HttpError
\* (ValueError) whose message carries the hint of 404, 405, 500 or 403 and
\* the numeric status otherwise; it is never a Timeout, a
\* ConnectionFailure, a MalformedResponse or an UnknownFailure, and a 404
\* is never reported by the generic "Server error: 404".
C11_HttpErrorHints ==
    last_http.kind = "http_error" =>
        /\ Raised(last_sent)
        /\ last_sent.exc = "ValueError"
        /\ CarriesHint(last_sent.msg, last_http.status)
        /\ ~MalformedResponse(last_sent)
        /\ last_http.status = 404 => last_sent.msg # "Server error: 404"

\* C11 witness: the webhook answered 404 to a chat query
C11_Witness ==
    /\ last_http.kind = "http_error"
    /\ last_http.status = 404
    /\ Raised(last_sent)

\* every write of the call in flight has succeeded so far
WritesSucceeded(writes) == \A i \in 1..Len(writes) : writes[i] = "ok"

\* the last step of an authenticate_user call whose writes all succeeded,
\* for a user whose stored password was plain text when the call read it
PlainLoginCompletes ==
    /\ LoginUpdateLastLogin
    /\ login.user.password.kind = "text"
    /\ WritesSucceeded(auth_result'.writes)

\* C12: when authenticate_user completes for an active user whose stored
\* password was plain text, with the correct password and every store
\* write succeeding, the stored password is then '$argon2'-prefixed,
\* differs from the original plaintext, and verifies that same password.
C12_UpgradeOnLogin ==
    [][PlainLoginCompletes =>
          /\ StartsWithArgon2(users'[login.email].password)
          /\ users'[login.email].password # login.user.password
          /\ verify_password(users'[login.email].password, login.password) = Ret(JBool(TRUE))]_vars

\* the upgrade step of a call in flight ended in a failure of its write
UpgradeWriteFailed ==
    /\ LoginUpgrade
    /\ \/ login'.pc = "idle"
       \/ login'.writes[Len(login'.writes)] # "ok"

\* C13: a failed upgrade write leaves the stored passwords as they were,
\* shows no error and does not end the login; the call then returns the
\* user it read, still without an error shown.
C13_UpgradeFailureIsSilent ==
    [][/\ UpgradeWriteFailed =>
             /\ users' = users
             /\ login'.pc = "last_login"
             /\ auth_errors' = <<>>
       /\ (LoginUpdateLastLogin /\ ~WritesSucceeded(login.writes)) =>
             /\ auth_result'.kind = "user"
             /\ auth_result'.user = login.user
             /\ auth_errors' = <<>>
             /\ users'[login.email].password = login.user.password
             /\ check_authentication(session')]_vars

\* C13 witness: a login has completed although its upgrade write failed;
\* the user is logged in and the stored password is still the plaintext
C13_Witness ==
    /\ auth_result.kind = "user"
    /\ Len(auth_result.writes) = 2
    /\ auth_result.writes[1] \in {"rejected", "raises"}
    /\ check_authentication(session)
    /\ auth_errors = <<>>
    /\ auth_result.user.email \in DOMAIN users
    /\ users[auth_result.user.email].password = auth_result.user.password

\* C14: no step removes a row from the users table: the set of stored
\* emails never shrinks.
C14_NoHardDelete ==
    [][DOMAIN users \subseteq DOMAIN users']_vars

\* the session is that of a logged-in administrator
AdminSession(s) ==
    /\ "authenticated" \in DOMAIN s
    /\ s["authenticated"] = TRUE
    /\ "user_role" \in DOMAIN s
    /\ s["user_role"] = "admin"

\* the session is that of a logged-in user
UserSession(s) ==
    /\ "authenticated" \in DOMAIN s
    /\ s["authenticated"] = TRUE

\* an operation of the admin panel
AdminOperation ==
    \/ AdminCreateUser
    \/ AdminUpdateUserStatus
    \/ AdminResetPassword
    \/ AdminDeleteButton
    \/ AdminDeleteUser

\* C15: the body of the chat page runs only in an authenticated session,
\* and the admin panel and its operations only in an authenticated session
\* whose user_role is 'admin'; otherwise the page stops at its guard.
C15_AccessControl ==
    /\ [](/\ (page = "main_app" /\ reached = "body") => UserSession(session)
          /\ (page = "admin" /\ reached = "body") => AdminSession(session)
          /\ (page = "admin" /\ ~AdminSession(session)) => reached = "stopped")
    /\ [][/\ AdminOperation => AdminSession(session)
          /\ SessionChat => UserSession(session)]_vars

\* C15 witness: a logged-in user without the admin role opened the admin
\* panel and was stopped at its guard
C15_Witness ==
    /\ page = "admin"
    /\ reached = "stopped"
    /\ UserSession(session)
    /\ session["user_role"] = "user"

\* C16: logout leaves none of the five keys in the session, an empty
\* history and check_authentication false; the keys appear only with an
\* authenticate_user that returned a user, and disappear only with logout.
C16_SessionLifecycle ==
    [][/\ Logout =>
             /\ DOMAIN session' \cap keys_to_clear = {}
             /\ messages' = <<>>
             /\ ~check_authentication(session')
       /\ (DOMAIN session' \cap keys_to_clear) \ DOMAIN session # {} =>
             /\ LoginUpdateLastLogin
             /\ auth_result'.kind = "user"
       /\ (DOMAIN session \cap keys_to_clear) \ DOMAIN session' # {} => Logout]_vars

\* C16 witness: a user logged in, chatted and logged out: the session is
\* empty, the history is empty, and the login form is shown again
C16_Witness ==
    /\ auth_result.kind = "user"
    /\ last_http.kind = "ok"
    /\ DOMAIN session \cap keys_to_clear = {}
    /\ messages = <<>>
    /\ ~check_authentication(session)
    /\ page = "login"

\* the message C17 expects for a payload that fails validation
ExpectedShownError(payload) ==
    IF IsDict(payload) /\ ExpectedErrorMessage(payload) # JNull
    THEN ExpectedErrorMessage(payload).s
    ELSE InvalidFormatMessage

\* C17: every failed chat submission shows exactly one error message and
\* gives no result: when send_message raised (whatever the error kind),
\* and when the payload it returned fails validation; in the latter case
\* the message is the one extracted from the payload if there is one and
\* the generic invalid-format message otherwise.
C17_FailuresShowOneMessage ==
    /\ Raised(last_sent) => (Len(errors) = 1 /\ last_result = JNull)
    /\ (Returned(last_sent) /\ ~HasClassificationsOrName(UnwrapArray(last_sent.val)))
          => (errors = <<ExpectedShownError(last_sent.val)>> /\ last_result = JNull)

\* a configuration source supplies the key (the environment holds what
\* the .env file has added to it)
Supplied(key) ==
    \/ key \in DOMAIN os_environ /\ os_environ[key] # ""
    \/ secrets.exists /\ key \in DOMAIN secrets.direct

\* C18: when no configuration source supplies the webhook URL,
\* get_webhook_url raises a configuration error and returns no endpoint.
C18_MissingWebhookUrlIsAnError ==
    (cfg_call = "get_webhook_url" /\ ~Supplied("DEFAULT_WEBHOOK_URL")) => Raised(cfg_out)

\* the values the secrets file holds for the call: under the fallback path
\* when one is given, and under the bare key
SecretValues ==
    IF ~secrets.exists THEN {}
    ELSE {secrets.direct[k] : k \in DOMAIN secrets.direct \cap {cfg_arg.key}}
            \cup (IF cfg_arg.fallback_path = JNull THEN {}
                  ELSE {secrets.nested[q] : q \in DOMAIN secrets.nested \cap {cfg_arg.fallback_path.s}})

\* C19: get(key) returns the environment value when it is set and not
\* empty; otherwise a value of the secrets file when the file exists and
\* holds the key; otherwise the default; it raises only when none of the
\* three provides a value.  Loading the .env file never changes a value
\* the environment already holds.
C19_ConfigPriority ==
    /\ [](cfg_call = "get" =>
            IF cfg_arg.key \in DOMAIN os_environ /\ os_environ[cfg_arg.key] # ""
            THEN cfg_out = Ret(JStr(os_environ[cfg_arg.key]))
            ELSE IF SecretValues # {}
            THEN cfg_out \in {Ret(JStr(v)) : v \in SecretValues}
            ELSE IF cfg_arg.default # JNull
            THEN cfg_out = Ret(cfg_arg.default)
            ELSE Raised(cfg_out) /\ cfg_out.exc = "ValueError")
    /\ [][\A k \in DOMAIN os_environ :
             k \in DOMAIN os_environ' /\ os_environ'[k] = os_environ[k]]_vars

\* C19 witness: the environment and the .env file both hold the key, a
\* secrets file exists, and get returned the value of the environment
C19_Witness ==
    /\ cfg_call = "get"
    /\ env_file.exists
    /\ cfg_arg.key \in DOMAIN env_file.entries
    /\ env_file.entries[cfg_arg.key] = "from-env-file"
    /\ secrets.exists
    /\ cfg_out = Ret(JStr("from-environment"))

\* C20: validate_response returns true or false, and never raises, for
\* every parsed JSON value.
C20_ValidateNeverRaises ==
    call = "validate_response" =>
        (Returned(out) /\ out.val \in {JBool(TRUE), JBool(FALSE)})

\* the keys extract_error_message reads
error_keys ==
    {"error", "error_message", "validation_error", "termination_reason",
     "validation_guardrail"}

\* C21: for every flat dict payload (no llm_classification key), an
\* error-only payload included, send_message returns the normalized form;
\* its researcher_name is non-empty, validate_response on it is true, none
\* of the error keys is in it, and send_to_webhook gives it as the result
\* without showing an error (extract_error_message is not consulted).
C21_FlatPayloadAlwaysValid ==
    (last_http.kind = "ok" /\ IsFlat(last_http.body)) =>
        /\ Returned(last_sent)
        /\ IsDict(last_sent.val)
        /\ Has(last_sent.val, "llm_classification")
        /\ Truthy(GetOrNone(last_sent.val, "researcher_name"))
        /\ validate_response(last_sent.val) = Ret(JBool(TRUE))
        /\ DOMAIN last_sent.val.keys \cap error_keys = {}
        /\ last_result = last_sent.val
        /\ errors = <<>>

\* the upgrade step of a login in flight, the row having been written by a
\* password reset since the login read it
UpgradeAfterReset ==
    /\ LoginUpgrade
    /\ login.email \in DOMAIN users
    /\ users[login.email].password # login.user.password

\* C22: when reset_user_password(email, Q) has completed between the read
\* and the upgrade write of a login with the legacy plain-text password P,
\* the stored password after the upgrade step verifies Q and does not
\* verify P; the last_login write that ends the login leaves it alone.
C22_ResetNotUndoneByUpgrade ==
    [][/\ UpgradeAfterReset =>
             /\ verify_password(users'[login.email].password,
                                Text(users[login.email].password.text)) = Ret(JBool(TRUE))
             /\ verify_password(users'[login.email].password, login.password)
                    # Ret(JBool(TRUE))
       /\ (LoginUpdateLastLogin /\ login.email \in DOMAIN users) =>
             users'[login.email].password = users[login.email].password]_vars

\* the last step of an authenticate_user call that returns the user, every
\* write of the call having succeeded
LoginCompletes ==
    /\ LoginUpdateLastLogin
    /\ WritesSucceeded(auth_result'.writes)

\* C23: after a successful authenticate_user whose store writes succeeded,
\* the stored password of the user is a genuine Argon2 hash of the
\* password that was supplied, also when the record held a plain text
\* that begins with '$argon2'.  (Stated for a supplied password that is a
\* text, not the encoded hash itself.)
C23_StoredIsHashAfterLogin ==
    [][(LoginCompletes /\ login.password.kind = "text") =>
          /\ users'[login.email].password.kind = "argon2"
          /\ ph_verify(users'[login.email].password, login.password) = "True"]_vars

DeactivatedMessage ==
    "Your account has been deactivated. Please contact the administrator."

\* a step of authenticate_user that writes to the store or returns the user
LoginWritesOrReturns == LoginUpgrade \/ LoginUpdateLastLogin

\* C24: for a record whose is_active is false or missing authenticate_user
\* returns no user, whatever the password, and writes nothing: the call
\* ends with its first step, which leaves the store as it is; only a call
\* for an active record goes on to write and to return the user.  So a
\* user deactivated by update_user_status cannot log in until reactivated.
C24_InactiveNeverAuthenticates ==
    /\ [][LoginSubmit =>
             /\ users' = users
             /\ login'.pc # "idle" => Truthy(users[login'.email].is_active)
             /\ auth_result'.kind # "user"]_vars
    /\ [][LoginWritesOrReturns =>
             /\ login.email \in DOMAIN users
             /\ Truthy(users[login.email].is_active)]_vars
    /\ [](login.pc # "idle" => Truthy(login.user.is_active))

\* C24 witness: a user who had logged in (the password was upgraded with
\* the second salt then) has been deactivated by the administrator; the
\* next login is refused with the deactivation notice, no user is
\* returned, the session is not authenticated and nothing was written
C24_Witness ==
    /\ auth_errors = <<DeactivatedMessage>>
    /\ auth_result.kind = "None"
    /\ login.pc = "idle"
    /\ ~check_authentication(session)
    /\ StaffEmail \in DOMAIN users
    /\ users[StaffEmail].is_active = JBool(FALSE)
    /\ users[StaffEmail].password = Argon2Hash("pw2", 2)
    /\ users[StaffEmail].last_login = 0

\* a complete canonical ClassificationResponse
CanonicalResponse(v) ==
    /\ IsDict(v)
    /\ Has(v, "llm_classification")
    /\ IsDict(v.keys["llm_classification"])
    /\ Has(v.keys["llm_classification"], "primary_classifications")
    /\ IsList(v.keys["llm_classification"].keys["primary_classifications"])
    /\ Has(v.keys["llm_classification"], "secondary_classifications")
    /\ IsList(v.keys["llm_classification"].keys["secondary_classifications"])
    /\ Has(v, "researcher_name")
    /\ Has(v, "institutional_context")
    /\ Has(v, "search_quality")

\* C25: every keyed value returned by normalize_response_format, passed
\* through or reshaped, is a complete canonical ClassificationResponse:
\* llm_classification with its primary and secondary lists,
\* researcher_name, institutional_context and search_quality.
C25_OutputIsCanonical ==
    (call = "normalize_response_format" /\ Returned(out) /\ IsDict(out.val))
        => CanonicalResponse(out.val)

\* C26: whenever authenticate_user returns a user, the last_login of that
\* user has been written during the call; no other step (a failed
\* authentication in particular) writes a last_login.
C26_LastLoginOnEverySuccess ==
    [][/\ LoginUpdateLastLogin =>
             /\ auth_result'.kind = "user"
             /\ users'[login.email].last_login = users[login.email].last_login + 1
       /\ \A e \in DOMAIN users \cap DOMAIN users' :
             users'[e].last_login # users[e].last_login =>
                 /\ LoginUpdateLastLogin
                 /\ e = login.email]_vars

\* the name C27 describes for a flat payload: the two capitalized words
\* after the first "Professor " that is followed by such a name, and
\* "Researcher" when the payload has no such biography
ExpectedResearcherName(payload) ==
    CASE GetOrNone(payload, "enriched_biography") = JStr(Join(BioJane)) -> JStr("Jane Doe")
      [] GetOrNone(payload, "enriched_biography") = JStr(Join(BioTwoNames)) -> JStr("Ann Lee")
      [] OTHER -> JStr("Researcher")

\* the classification lists of the payload are absent or lists of objects
ListsConvert(payload) ==
    /\ Returned(ConvertClassifications(Get(payload, "primary_classifications", EmptyList)))
    /\ Returned(ConvertClassifications(Get(payload, "secondary_classifications", EmptyList)))

\* C27: in the flat path the normalized researcher_name is the two-token
\* capitalized name after the first match of "Professor " in the biography
\* when there is one, and "Researcher" in every other case (no biography,
\* no match); it is never empty and never the payload's own
\* researcher_name.
C27_ResearcherNameResolution ==
    (call = "normalize_response_format" /\ IsFlat(arg) /\ ListsConvert(arg))
        => /\ Returned(out)
           /\ out.val.keys["researcher_name"] = ExpectedResearcherName(arg)
           /\ Truthy(out.val.keys["researcher_name"])

\* C28: every write of the password field (create_user,
\* reset_user_password, upgrade_password_to_hash, the setup script) stores
\* an Argon2 hash and never a plain text: a row that is new, or whose
\* password has changed, holds a hash; so a hashed password never becomes
\* plain text again.
C28_PasswordWritesAreHashed ==
    [][\A e \in DOMAIN users' :
          /\ (e \notin DOMAIN users \/ users'[e].password # users[e].password)
                => users'[e].password.kind = "argon2"
          /\ (e \in DOMAIN users /\ users[e].password.kind = "argon2")
                => users'[e].password.kind = "argon2"]_vars

\* C28 witness: the administrator of the setup script exists, a legacy
\* plain-text password has been upgraded at login (the second salt), and
\* the administrator has created a user: every stored password is a hash
C28_Witness ==
    /\ DOMAIN users = Emails
    /\ users[AdminEmail].password.kind = "argon2"
    /\ users[StaffEmail].password = Argon2Hash("pw2", 2)
    /\ users[StaffEmail].last_login = 1
    /\ users[NewEmail].password.kind = "argon2"
    /\ users[NewEmail].password.text = "pw1"

\* the keys of the session hold the values of the user record
SessionHolds(s, user) ==
    /\ keys_to_clear \subseteq DOMAIN s
    /\ s["authenticated"] = TRUE
    /\ s["user_email"] = user.email
    /\ s["user_name"] = user.name
    /\ s["user_role"] = user.role
    /\ s["user_id"] = user.id

\* a login attempt that ends without a user
LoginFails ==
    \/ LoginSubmit /\ login'.pc = "idle"
    \/ LoginUpgrade /\ login'.pc = "idle"

\* C29: in every state of the session, authenticated = true implies that
\* user_email, user_name, user_role and user_id hold the values of the
\* record the most recent authenticate_user returned; the session changes
\* only with a login that returns a user and with logout, and a failed
\* login attempt leaves it as it was.
C29_SessionConsistency ==
    /\ [](check_authentication(session) =>
            /\ auth_result.kind = "user"
            /\ SessionHolds(session, auth_result.user))
    /\ [][/\ session' # session =>
                \/ LoginUpdateLastLogin /\ auth_result'.kind = "user"
                \/ Logout
          /\ LoginFails => session' = session]_vars

\* C29 witness: a user has logged in and out and the administrator has
\* logged in since: the session holds the administrator's record
C29_Witness ==
    /\ check_authentication(session)
    /\ session["user_email"] = AdminEmail
    /\ session["user_role"] = "admin"
    /\ auth_result.user.email = AdminEmail
    /\ StaffEmail \in DOMAIN users
    /\ users[StaffEmail].last_login = 1

====
